---- MODULE Spec2Model ----
(***************************************************************************)
(* Water reminder (src/main.py): the settings file, the WaterReminder      *)
(* object of each invocation, the trigger (--notify), continuous,          *)
(* configure, setup and interactive-menu paths of main(), and the clock.   *)
(*                                                                         *)
(* Text is a sequence of one-character strings, so that int(), strptime,   *)
(* isoformat/fromisoformat and json.dump/json.load are computed on the     *)
(* characters.  A Python value is a record [t, v] tagged with its type.    *)
(***************************************************************************)
EXTENDS Integers, Sequences, FiniteSets, TLC

VARIABLES
    file,           \* water_reminder_config.json: [kind, obj]
    config,         \* config[p]: self.config of invocation p (a dict)
    pc,             \* pc[p]: where invocation p stands
    wakeAt,         \* wakeAt[p]: instant at which time.sleep of p returns
    now,            \* the wall clock, in seconds since 2024-01-01T00:00:00
    artifacts,      \* water_reminder_task.bat and WaterReminder_Task.xml exist
    taskRegistered, \* schtasks /query /tn WaterReminder_Task exits with 0
    runs,           \* invocations started so far
    sleeps,         \* calls of time.sleep that have returned so far
    obs             \* what the last step did: calls made and their results

vars ==
    <<file, config, pc, wakeAt, now, artifacts, taskRegistered, runs, sleeps, obs>>

-----------------------------------------------------------------------------
(* Bounds of the model *)

\* invocations of the program in one behaviour
MaxRuns == 2
\* sleeps of the continuous loop that run to their end in one behaviour
MaxSleeps == 1

-----------------------------------------------------------------------------
(* Text *)

Digits == <<"0", "1", "2", "3", "4", "5", "6", "7", "8", "9">>

IsDigit(c) == \E i \in 1..10 : Digits[i] = c

DigitVal(c) == (CHOOSE i \in 1..10 : Digits[i] = c) - 1

AllDigits(s) == s # <<>> /\ \A i \in 1..Len(s) : IsDigit(s[i])

RECURSIVE DigitsVal(_)
DigitsVal(s) ==
    IF s = <<>> THEN 0
    ELSE 10 * DigitsVal(SubSeq(s, 1, Len(s) - 1)) + DigitVal(s[Len(s)])

RECURSIVE NatChars(_)
\* decimal digits of a natural number
NatChars(n) ==
    IF n < 10 THEN <<Digits[n + 1]>>
    ELSE NatChars(n \div 10) \o <<Digits[(n % 10) + 1]>>

IntChars(n) == IF n < 0 THEN <<"-">> \o NatChars(-n) ELSE NatChars(n)

\* "%02d"
TwoDigits(n) == <<Digits[(n \div 10) + 1], Digits[(n % 10) + 1]>>

IsSpace(c) == c \in {" ", "\t"}

RECURSIVE LStrip(_)
LStrip(s) == IF s # <<>> /\ IsSpace(Head(s)) THEN LStrip(Tail(s)) ELSE s

RECURSIVE RStrip(_)
RStrip(s) ==
    IF s # <<>> /\ IsSpace(s[Len(s)]) THEN RStrip(SubSeq(s, 1, Len(s) - 1)) ELSE s

\* str.strip()
Strip(s) == RStrip(LStrip(s))

\* int(text): surrounding blanks and one sign are accepted, anything else
\* than digits raises ValueError
PyIntParse(s) ==
    LET t == Strip(s)
        signed == t # <<>> /\ t[1] \in {"+", "-"}
        body == IF signed THEN Tail(t) ELSE t
    IN  IF AllDigits(body)
        THEN [ok |-> TRUE,
              val |-> IF signed /\ t[1] = "-" THEN 0 - DigitsVal(body)
                      ELSE DigitsVal(body)]
        ELSE [ok |-> FALSE, val |-> 0]

-----------------------------------------------------------------------------
(* Times *)

SecondsOfDay == 24 * 60 * 60

\* datetime.now().time(), to the second
TimeOfDay(t) == t % SecondsOfDay

\* datetime.strptime(s, "%H:%M").time(): one or two digits of hour (at most
\* 23), a colon, one or two digits of minute (at most 59), nothing else;
\* ValueError otherwise.  The result is the time of day in seconds.
Strptime(s) ==
    LET cut == {i \in 2..3 :
                  /\ i < Len(s)
                  /\ s[i] = ":"
                  /\ AllDigits(SubSeq(s, 1, i - 1))
                  /\ DigitsVal(SubSeq(s, 1, i - 1)) <= 23
                  /\ Len(s) - i <= 2
                  /\ AllDigits(SubSeq(s, i + 1, Len(s)))
                  /\ DigitsVal(SubSeq(s, i + 1, Len(s))) <= 59}
    IN  IF cut = {} THEN [ok |-> FALSE, val |-> 0]
        ELSE LET i == CHOOSE j \in cut : TRUE
             IN  [ok |-> TRUE,
                  val |-> DigitsVal(SubSeq(s, 1, i - 1)) * 3600
                          + DigitsVal(SubSeq(s, i + 1, Len(s))) * 60]

\* datetime.now().isoformat(), to the second: YYYY-MM-DDTHH:MM:SS.  Day 0 of
\* the clock is 2024-01-01; the clock stays within January.
Isoformat(t) ==
    LET d == t \div SecondsOfDay
        r == t % SecondsOfDay
    IN  <<"2", "0", "2", "4", "-", "0", "1", "-">> \o TwoDigits(d + 1) \o <<"T">>
        \o TwoDigits(r \div 3600) \o <<":">> \o TwoDigits((r % 3600) \div 60)
        \o <<":">> \o TwoDigits(r % 60)

\* datetime.fromisoformat(s) for text of the shape isoformat() writes;
\* ValueError otherwise
FromIsoformat(s) ==
    IF /\ Len(s) = 19
       /\ SubSeq(s, 1, 8) = <<"2", "0", "2", "4", "-", "0", "1", "-">>
       /\ s[11] = "T" /\ s[14] = ":" /\ s[17] = ":"
       /\ AllDigits(SubSeq(s, 9, 10)) /\ AllDigits(SubSeq(s, 12, 13))
       /\ AllDigits(SubSeq(s, 15, 16)) /\ AllDigits(SubSeq(s, 18, 19))
       /\ DigitsVal(SubSeq(s, 9, 10)) \in 1..31
       /\ DigitsVal(SubSeq(s, 12, 13)) <= 23
       /\ DigitsVal(SubSeq(s, 15, 16)) <= 59
       /\ DigitsVal(SubSeq(s, 18, 19)) <= 59
    THEN [ok |-> TRUE,
          val |-> (DigitsVal(SubSeq(s, 9, 10)) - 1) * SecondsOfDay
                  + DigitsVal(SubSeq(s, 12, 13)) * 3600
                  + DigitsVal(SubSeq(s, 15, 16)) * 60
                  + DigitsVal(SubSeq(s, 18, 19))]
    ELSE [ok |-> FALSE, val |-> 0]

-----------------------------------------------------------------------------
(* Python values and the config dict *)

PyInt(n) == [t |-> "int", v |-> n]
PyStr(s) == [t |-> "str", v |-> s]
PyBool(b) == [t |-> "bool", v |-> b]
PyNone == [t |-> "NoneType", v |-> 0]

\* truth value of a Python object, as "if x" and "not x" take it
Truthy(x) ==
    CASE x.t = "NoneType" -> FALSE
      [] x.t = "bool" -> x.v
      [] x.t = "int" -> x.v # 0
      [] x.t = "str" -> x.v # <<>>

\* the message of default_config; the droplet emoji is the one character
\* "U+1F4A7"
DefaultMessage ==
    <<"U+1F4A7", " ", "T", "i", "m", "e", " ", "t", "o", " ", "d", "r",
      "i", "n", "k", " ", "w", "a", "t", "e", "r", "!", " ", "S", "t", "a",
      "y", " ", "h", "y", "d", "r", "a", "t", "e", "d", "!", " ",
      "U+1F4A7">>

DefaultTitle ==
    <<"W", "a", "t", "e", "r", " ", "R", "e", "m", "i", "n", "d", "e", "r">>

Fields ==
    {"interval_minutes", "start_time", "end_time", "message", "title",
     "sound_enabled", "last_reminder"}

\* default_config of load_config
DefaultConfig ==
    [k \in Fields |->
        CASE k = "interval_minutes" -> PyInt(60)
          [] k = "start_time" -> PyStr(<<"0", "8", ":", "0", "0">>)
          [] k = "end_time" -> PyStr(<<"2", "2", ":", "0", "0">>)
          [] k = "message" -> PyStr(DefaultMessage)
          [] k = "title" -> PyStr(DefaultTitle)
          [] k = "sound_enabled" -> PyBool(TRUE)
          [] k = "last_reminder" -> PyNone]

\* dict.update: the keys of o are added to d or overwrite d's
DictUpdate(d, o) ==
    [k \in (DOMAIN d) \cup (DOMAIN o) |-> IF k \in DOMAIN o THEN o[k] ELSE d[k]]

\* d with d[k] = x
DictSet(d, k, x) == [d EXCEPT ![k] = x]

-----------------------------------------------------------------------------
(* JSON text, as json.dump (ensure_ascii) writes it and json.load reads it *)

DropletEscape ==
    <<"\\", "u", "d", "8", "3", "d", "\\", "u", "d", "c", "a", "7">>

RECURSIVE JsonEscape(_)
\* the characters of a string literal: the quote, the backslash and every
\* non-ASCII character are escaped
JsonEscape(s) ==
    IF s = <<>> THEN <<>>
    ELSE (CASE Head(s) = "U+1F4A7" -> DropletEscape
            [] Head(s) = "\"" -> <<"\\", "\"">>
            [] Head(s) = "\\" -> <<"\\", "\\">>
            [] OTHER -> <<Head(s)>>) \o JsonEscape(Tail(s))

RECURSIVE JsonUnescape(_)
JsonUnescape(s) ==
    IF s = <<>> THEN <<>>
    ELSE IF Head(s) # "\\" THEN <<Head(s)>> \o JsonUnescape(Tail(s))
    ELSE IF Len(s) >= 12 /\ SubSeq(s, 1, 12) = DropletEscape
         THEN <<"U+1F4A7">> \o JsonUnescape(SubSeq(s, 13, Len(s)))
    ELSE <<s[2]>> \o JsonUnescape(SubSeq(s, 3, Len(s)))

\* the text json.dump writes for one value
JsonEncode(x) ==
    CASE x.t = "NoneType" -> <<"n", "u", "l", "l">>
      [] x.t = "bool" -> IF x.v THEN <<"t", "r", "u", "e">>
                         ELSE <<"f", "a", "l", "s", "e">>
      [] x.t = "int" -> IntChars(x.v)
      [] x.t = "str" -> <<"\"">> \o JsonEscape(x.v) \o <<"\"">>

\* json.load leaving the escapes of a string literal as they are
JsonDecodeRaw(s) ==
    CASE s[1] = "n" -> PyNone
      [] s[1] = "t" -> PyBool(TRUE)
      [] s[1] = "f" -> PyBool(FALSE)
      [] s[1] = "\"" -> PyStr(SubSeq(s, 2, Len(s) - 1))
      [] s[1] = "-" -> PyInt(0 - DigitsVal(Tail(s)))
      [] OTHER -> PyInt(DigitsVal(s))

\* the value json.load reads from the text of one value
JsonDecode(s) ==
    CASE s[1] = "n" -> PyNone
      [] s[1] = "t" -> PyBool(TRUE)
      [] s[1] = "f" -> PyBool(FALSE)
      [] s[1] = "\"" -> PyStr(JsonUnescape(SubSeq(s, 2, Len(s) - 1)))
      [] s[1] = "-" -> PyInt(0 - DigitsVal(Tail(s)))
      [] OTHER -> PyInt(DigitsVal(s))

\* The settings file.  kind: "missing" (no file), "garbage" (not JSON),
\* "scalar" (JSON, but a number), "object" (a JSON object, obj maps each key
\* to the text of its value).
MissingFile == [kind |-> "missing", obj |-> <<>>]
GarbageFile == [kind |-> "garbage", obj |-> <<>>]
ScalarFile == [kind |-> "scalar", obj |-> <<>>]

\* json.dump(d, f, indent=2)
JsonDump(d) == [kind |-> "object", obj |-> [k \in DOMAIN d |-> JsonEncode(d[k])]]

\* open(config_file, 'r'), json.load(f) and default_config.update(...):
\* what is raised inside the try block, and the dict read
ReadSettings(f, ioerr) ==
    CASE ioerr -> [raised |-> "OSError", value |-> <<>>]
      [] f.kind = "garbage" -> [raised |-> "JSONDecodeError", value |-> <<>>]
      [] f.kind = "scalar" -> [raised |-> "TypeError", value |-> <<>>]
      [] OTHER -> [raised |-> "none",
                   value |-> [k \in DOMAIN f.obj |-> JsonDecode(f.obj[k])]]

\* load_config with the bare except removed
LoadConfigUncaught(f, ioerr) ==
    IF f.kind = "missing" THEN [raised |-> "none", value |-> DefaultConfig]
    ELSE LET r == ReadSettings(f, ioerr)
         IN  [raised |-> r.raised,
              value |-> IF r.raised = "none" THEN DictUpdate(DefaultConfig, r.value)
                        ELSE DefaultConfig]

\* load_config: the defaults, overlaid with the file when it exists and
\* reads as a JSON object; whatever is raised on the way is swallowed
LoadConfig(f, ioerr) ==
    IF f.kind = "missing" THEN [raised |-> "none", value |-> DefaultConfig]
    ELSE LET r == ReadSettings(f, ioerr)
         IN  [raised |-> "none",
              value |-> IF r.raised = "none" THEN DictUpdate(DefaultConfig, r.value)
                        ELSE DefaultConfig]

\* save_config leaving in place the keys the file already holds
SaveConfigMerging(f, d) ==
    IF f.kind = "object"
    THEN [kind |-> "object", obj |-> DictUpdate(JsonDump(d).obj, f.obj)]
    ELSE JsonDump(d)

\* save_config: open(config_file, 'w') truncates f, then the whole dict is
\* written
SaveConfig(f, d) == JsonDump(d)

-----------------------------------------------------------------------------
(* WaterReminder: the methods.  A call yields [raised, value]: the name of
   the exception that leaves it ("none" when it returns) and what it
   returns. *)

\* is_within_active_hours with the end of the window excluded
IsWithinActiveHoursOpenEnd(cfg, t) ==
    LET s == Strptime(cfg["start_time"].v)
        e == Strptime(cfg["end_time"].v)
    IN  CASE cfg["start_time"].t # "str" \/ cfg["end_time"].t # "str" ->
               [raised |-> "TypeError", value |-> FALSE]
          [] OTHER ->
               IF s.ok /\ e.ok
               THEN [raised |-> "none",
                     value |-> s.val <= TimeOfDay(t) /\ TimeOfDay(t) < e.val]
               ELSE [raised |-> "ValueError", value |-> FALSE]

\* is_within_active_hours: both times are parsed (strptime raises TypeError
\* on a value that is no str, ValueError on text that is no %H:%M), then
\* start_time <= now <= end_time
IsWithinActiveHours(cfg, t) ==
    LET s == Strptime(cfg["start_time"].v)
        e == Strptime(cfg["end_time"].v)
    IN  CASE cfg["start_time"].t # "str" \/ cfg["end_time"].t # "str" ->
               [raised |-> "TypeError", value |-> FALSE]
          [] OTHER ->
               IF s.ok /\ e.ok
               THEN [raised |-> "none",
                     value |-> s.val <= TimeOfDay(t) /\ TimeOfDay(t) <= e.val]
               ELSE [raised |-> "ValueError", value |-> FALSE]

\* send_notification: notification.notify inside try/except Exception;
\* notifyOk says whether the notification facility raises
SendNotification(cfg, notifyOk) == [raised |-> "none", value |-> notifyOk]

\* reminder.check_reminder_due(): the class defines no such attribute (the
\* body written for it is unreachable code of get_status_info), so the
\* lookup raises AttributeError
CheckReminderDue(cfg, t) == [raised |-> "AttributeError", value |-> FALSE]

\* reminder.show_detailed_status(): no such attribute either
ShowDetailedStatus(cfg) == [raised |-> "AttributeError", value |-> FALSE]

\* time.sleep(self.config["interval_minutes"] * 60): the seconds slept;
\* a negative length raises ValueError, a length that is no number TypeError
SleepLength(cfg) ==
    LET x == cfg["interval_minutes"]
    IN  CASE x.t = "int" ->
               IF x.v * 60 < 0 THEN [raised |-> "ValueError", value |-> 0]
               ELSE [raised |-> "none", value |-> x.v * 60]
          [] x.t = "bool" ->
               [raised |-> "none", value |-> IF x.v THEN 60 ELSE 0]
          [] OTHER -> [raised |-> "TypeError", value |-> 0]

\* get_status_info, up to "return status"
GetStatusInfo(cfg, t, filesCreated, taskScheduled) ==
    LET a == IsWithinActiveHours(cfg, t)
    IN  [raised |-> a.raised,
         value |-> [files_created |-> filesCreated,
                    task_scheduled |-> taskScheduled,
                    last_reminder |-> cfg["last_reminder"],
                    is_active_time |-> a.value]]

\* configure: the dict after the four prompts.  iv, st, en, msg are the
\* lines typed; a blank line keeps the current value, an interval that
\* int() refuses keeps it too, and the times and the message are stored as
\* typed
Configure(cfg, iv, st, en, msg) ==
    LET n == PyIntParse(iv)
        c1 == IF Strip(iv) # <<>> /\ n.ok
              THEN DictSet(cfg, "interval_minutes", PyInt(n.val)) ELSE cfg
        c2 == IF Strip(st) # <<>> THEN DictSet(c1, "start_time", PyStr(st)) ELSE c1
        c3 == IF Strip(en) # <<>> THEN DictSet(c2, "end_time", PyStr(en)) ELSE c2
    IN  IF Strip(msg) # <<>> THEN DictSet(c3, "message", PyStr(msg)) ELSE c3

-----------------------------------------------------------------------------
(* main(): what one pass through a branch does.  The result names the
   uncaught exception (exc), the outcome of is_within_active_hours (active)
   and of send_notification (send) when they were called, the dict
   afterwards (cfg) and whether save_config ran (save). *)

Outcome(exc, active, send, cfg, save) ==
    [exc |-> exc, active |-> active, send |-> send, cfg |-> cfg, save |-> save]

ActiveName(a) ==
    IF a.raised # "none" THEN a.raised ELSE IF a.value THEN "true" ELSE "false"

SendName(r) == IF r.value THEN "sent" ELSE "failed"

\* the dict with last_reminder = datetime.now().isoformat()
Stamp(cfg, t) == DictSet(cfg, "last_reminder", PyStr(Isoformat(t)))

\* the --notify branch with "or" for the "and" of its condition
NotifyRunOr(cfg, t, notifyOk) ==
    LET a == IsWithinActiveHours(cfg, t)
        d == CheckReminderDue(cfg, t)
        r == SendNotification(cfg, notifyOk)
    IN  IF a.raised # "none"
        THEN Outcome(a.raised, ActiveName(a), "none", cfg, FALSE)
        ELSE IF ~a.value /\ d.raised # "none"
        THEN Outcome(d.raised, "false", "none", cfg, FALSE)
        ELSE IF ~a.value /\ ~d.value
        THEN Outcome("none", "false", "none", cfg, FALSE)
        ELSE IF r.value
        THEN Outcome("none", ActiveName(a), "sent", Stamp(cfg, t), TRUE)
        ELSE Outcome("none", ActiveName(a), "failed", cfg, FALSE)

\* the --notify branch of main: "is_within_active_hours() and
\* check_reminder_due()", then send_notification, and on True the stamp and
\* save_config
NotifyRun(cfg, t, notifyOk) ==
    LET a == IsWithinActiveHours(cfg, t)
        d == CheckReminderDue(cfg, t)
        r == SendNotification(cfg, notifyOk)
    IN  IF a.raised # "none" \/ ~a.value
        THEN Outcome(a.raised, ActiveName(a), "none", cfg, FALSE)
        ELSE IF d.raised # "none" \/ ~d.value
        THEN Outcome(d.raised, "true", "none", cfg, FALSE)
        ELSE IF r.value
        THEN Outcome("none", "true", "sent", Stamp(cfg, t), TRUE)
        ELSE Outcome("none", "true", "failed", cfg, FALSE)

\* one pass of the loop of run_continuous, up to the call of time.sleep:
\* inside the window send_notification is called, its result dropped,
\* last_reminder stamped and the dict saved; sleep is the length handed to
\* time.sleep, which raises on a negative one
Iteration(cfg, t, notifyOk) ==
    LET a == IsWithinActiveHours(cfg, t)
        r == SendNotification(cfg, notifyOk)
        c == IF a.value THEN Stamp(cfg, t) ELSE cfg
    IN  IF a.raised # "none"
        THEN Outcome(a.raised, a.raised, "none", cfg, FALSE) @@ [sleep |-> 0]
        ELSE Outcome(SleepLength(c).raised, ActiveName(a),
                     IF a.value THEN SendName(r) ELSE "none", c, a.value)
             @@ [sleep |-> SleepLength(c).value]

\* which of the three menus main prints
MenuOf(status) ==
    IF ~status.files_created THEN "welcome"
    ELSE IF status.task_scheduled THEN "scheduled" ELSE "unscheduled"

\* what the choice typed at a menu dispatches to
Dispatch(menu, choice) ==
    CASE menu = "scheduled" ->
           (CASE choice = <<"1">> -> "test"
              [] choice = <<"2">> -> "configure"
              [] choice = <<"3">> -> "status"
              [] choice = <<"4">> -> "setup"
              [] choice = <<"5">> -> "continuous"
              [] choice = <<"6">> -> "exit"
              [] OTHER -> "invalid")
      [] menu = "unscheduled" ->
           (CASE choice = <<"1">> -> "setup"
              [] choice = <<"2">> -> "test"
              [] choice = <<"3">> -> "configure"
              [] choice = <<"4">> -> "continuous"
              [] choice = <<"5">> -> "exit"
              [] OTHER -> "invalid")
      [] menu = "welcome" ->
           (CASE choice = <<"1">> -> "setup"
              [] choice = <<"2">> -> "continuous"
              [] choice = <<"3">> -> "configure"
              [] choice = <<"4">> -> "test"
              [] choice = <<"5">> -> "exit"
              [] OTHER -> "invalid")

\* the status lines main prints before a menu when the setup files exist:
\* datetime.fromisoformat(status['last_reminder']) for a truthy value
PrintLastReminder(status) ==
    IF ~status.files_created \/ ~Truthy(status.last_reminder)
    THEN [raised |-> "none", value |-> FALSE]
    ELSE IF status.last_reminder.t # "str"
    THEN [raised |-> "TypeError", value |-> FALSE]
    ELSE IF FromIsoformat(status.last_reminder.v).ok
    THEN [raised |-> "none", value |-> TRUE]
    ELSE [raised |-> "ValueError", value |-> FALSE]

\* the interactive branch of main, up to the call the choice dispatches to:
\* exc is what get_status_info or the status lines raised, goto the call
MenuRun(cfg, t, filesCreated, taskScheduled, choice) ==
    LET st == GetStatusInfo(cfg, t, filesCreated, taskScheduled)
        pr == PrintLastReminder(st.value)
    IN  IF st.raised # "none"
        THEN [exc |-> st.raised, active |-> st.raised, goto |-> "none"]
        ELSE IF pr.raised # "none"
        THEN [exc |-> pr.raised, active |-> ActiveName([raised |-> "none",
                                  value |-> st.value.is_active_time]),
              goto |-> "none"]
        ELSE [exc |-> "none",
              active |-> ActiveName([raised |-> "none",
                                     value |-> st.value.is_active_time]),
              goto |-> Dispatch(MenuOf(st.value), choice)]

-----------------------------------------------------------------------------
(* The state machine *)

\* invocation slots: two, so that two invocations can overlap
Procs == {1, 2}

\* no process in the slot: never started, returned from main, died of an
\* uncaught exception, or left at the import of plyer with sys.exit(1)
Ended == {"none", "exited", "crashed", "exit1"}

\* the command lines: the flag given, "menu" for none
Args == {"notify", "continuous", "configure", "setup", "menu"}

\* times of day the clock is moved to: just before, at and after the ends
\* of the default window
TimesOfInterest ==
    {7 * 3600 + 59 * 60 + 59, 8 * 3600, 9 * 3600, 22 * 3600, 22 * 3600 + 1}

\* Isoformat is modelled for the 31 days of January
Horizon == 31 * SecondsOfDay

\* lines typed at the prompts of configure
IntervalInputs == {<<>>, <<"a", "b", "c">>, <<"0">>, <<"-", "5">>, <<"9", "0">>}
StartInputs == {<<>>, <<"s", "o", "o", "n">>}
EndInputs == {<<>>, <<"0", "6", ":", "0", "0">>}
MessageInputs == {<<>>, <<"D", "r", "i", "n", "k", "!">>}

\* lines typed at a menu
Choices == {<<"1">>, <<"2">>, <<"3">>, <<"4">>, <<"5">>, <<"6">>, <<"7">>, <<>>}

Obs(p, op, active, send, exc) ==
    [p |-> p, op |-> op, active |-> active, send |-> send, exc |-> exc]

Init ==
    /\ file = MissingFile
    /\ config = [p \in Procs |-> DefaultConfig]
    /\ pc = [p \in Procs |-> "none"]
    /\ wakeAt = [p \in Procs |-> 0]
    /\ now = 7 * 3600 + 59 * 60 + 59
    /\ artifacts = FALSE
    /\ taskRegistered = FALSE
    /\ runs = 0
    /\ sleeps = 0
    /\ obs = Obs(0, "init", "none", "none", "none")

\* python main.py <args>: the import of plyer, then WaterReminder(), whose
\* constructor loads the settings file
Launch(p, args, plyer, ioerr) ==
    /\ pc[p] \in Ended
    /\ runs < MaxRuns
    /\ runs' = runs + 1
    /\ IF plyer
       THEN LET r == LoadConfig(file, ioerr)
            IN  /\ config' = [config EXCEPT ![p] = r.value]
                /\ pc' = [pc EXCEPT ![p] = IF r.raised = "none" THEN args
                                           ELSE "crashed"]
                /\ obs' = Obs(p, "launch", "none", "none", r.raised)
       ELSE /\ pc' = [pc EXCEPT ![p] = "exit1"]
            /\ obs' = Obs(p, "launch", "none", "none", "SystemExit")
            /\ UNCHANGED config
    /\ UNCHANGED <<file, wakeAt, now, artifacts, taskRegistered, sleeps>>

\* main with --notify
Notify(p, notifyOk) ==
    /\ pc[p] = "notify"
    /\ LET r == NotifyRun(config[p], now, notifyOk)
       IN  /\ config' = [config EXCEPT ![p] = r.cfg]
           /\ file' = IF r.save THEN SaveConfig(file, r.cfg) ELSE file
           /\ pc' = [pc EXCEPT ![p] = IF r.exc = "none" THEN "exited" ELSE "crashed"]
           /\ obs' = Obs(p, "notify", r.active, r.send, r.exc)
    /\ UNCHANGED <<wakeAt, now, artifacts, taskRegistered, runs, sleeps>>

\* run_continuous: one pass of the loop, which ends in time.sleep
Iterate(p, notifyOk) ==
    /\ pc[p] = "continuous"
    /\ LET r == Iteration(config[p], now, notifyOk)
       IN  /\ config' = [config EXCEPT ![p] = r.cfg]
           /\ file' = IF r.save THEN SaveConfig(file, r.cfg) ELSE file
           /\ pc' = [pc EXCEPT ![p] = IF r.exc = "none" THEN "sleeping" ELSE "crashed"]
           /\ wakeAt' = [wakeAt EXCEPT ![p] = IF r.exc = "none" THEN now + r.sleep
                                              ELSE @]
           /\ obs' = Obs(p, "iterate", r.active, r.send, r.exc)
    /\ UNCHANGED <<now, artifacts, taskRegistered, runs, sleeps>>

\* time.sleep returns: the clock stands at the end of the sleep
Wake(p) ==
    /\ pc[p] = "sleeping"
    /\ wakeAt[p] < Horizon
    /\ \A q \in Procs : pc[q] = "sleeping" => wakeAt[p] <= wakeAt[q]
    /\ sleeps < MaxSleeps
    /\ sleeps' = sleeps + 1
    /\ now' = wakeAt[p]
    /\ pc' = [pc EXCEPT ![p] = "continuous"]
    /\ obs' = Obs(p, "wake", "none", "none", "none")
    /\ UNCHANGED <<file, config, wakeAt, artifacts, taskRegistered, runs>>

\* Ctrl+C in run_continuous: KeyboardInterrupt is caught, the loop is left
\* and main returns
Interrupt(p) ==
    /\ pc[p] \in {"continuous", "sleeping"}
    /\ pc' = [pc EXCEPT ![p] = "exited"]
    /\ obs' = Obs(p, "interrupt", "none", "none", "none")
    /\ UNCHANGED <<file, config, wakeAt, now, artifacts, taskRegistered, runs, sleeps>>

\* configure(): the four prompts answered, then save_config
Reconfigure(p, iv, st, en, msg) ==
    /\ pc[p] = "configure"
    /\ config' = [config EXCEPT ![p] = Configure(@, iv, st, en, msg)]
    /\ file' = SaveConfig(file, config'[p])
    /\ pc' = [pc EXCEPT ![p] = "exited"]
    /\ obs' = Obs(p, "configure", "none", "none", "none")
    /\ UNCHANGED <<wakeAt, now, artifacts, taskRegistered, runs, sleeps>>

\* setup_task_scheduler(): the batch file and the XML file are written
Setup(p) ==
    /\ pc[p] = "setup"
    /\ artifacts' = TRUE
    /\ pc' = [pc EXCEPT ![p] = "exited"]
    /\ obs' = Obs(p, "setup", "none", "none", "none")
    /\ UNCHANGED <<file, config, wakeAt, now, taskRegistered, runs, sleeps>>

\* main without a flag: the status, one menu, one choice
Menu(p, choice, notifyOk) ==
    /\ pc[p] = "menu"
    /\ LET m == MenuRun(config[p], now, artifacts, taskRegistered, choice)
           exc == IF m.exc = "none" /\ m.goto = "status"
                  THEN ShowDetailedStatus(config[p]).raised ELSE m.exc
       IN  /\ pc' = [pc EXCEPT ![p] =
                        IF exc # "none" THEN "crashed"
                        ELSE IF m.goto \in {"configure", "continuous"} THEN m.goto
                        ELSE "exited"]
           /\ artifacts' = (artifacts \/ (exc = "none" /\ m.goto = "setup"))
           /\ obs' = Obs(p, "menu", m.active,
                         IF exc = "none" /\ m.goto = "test"
                         THEN SendName(SendNotification(config[p], notifyOk))
                         ELSE "none",
                         exc)
    /\ UNCHANGED <<file, config, wakeAt, now, taskRegistered, runs, sleeps>>

\* time passes, but not beyond the end of a sleep
Tick(t) ==
    /\ t > now
    /\ \A p \in Procs : pc[p] = "sleeping" => t <= wakeAt[p]
    /\ now' = t
    /\ obs' = Obs(0, "tick", "none", "none", "none")
    /\ UNCHANGED <<file, config, pc, wakeAt, artifacts, taskRegistered, runs, sleeps>>

\* the user imports WaterReminder_Task.xml into the Task Scheduler
RegisterTask ==
    /\ artifacts
    /\ ~taskRegistered
    /\ taskRegistered' = TRUE
    /\ obs' = Obs(0, "register", "none", "none", "none")
    /\ UNCHANGED <<file, config, pc, wakeAt, now, artifacts, runs, sleeps>>

\* one invocation at a time
Next ==
    \/ \E args \in Args, plyer \in BOOLEAN : Launch(1, args, plyer, FALSE)
    \/ \E notifyOk \in BOOLEAN : Notify(1, notifyOk)
    \/ \E notifyOk \in BOOLEAN : Iterate(1, notifyOk)
    \/ Wake(1)
    \/ Interrupt(1)
    \/ \E iv \in IntervalInputs, st \in StartInputs, en \in EndInputs,
          msg \in MessageInputs : Reconfigure(1, iv, st, en, msg)
    \/ Setup(1)
    \/ \E choice \in Choices, notifyOk \in BOOLEAN : Menu(1, choice, notifyOk)
    \/ \E t \in TimesOfInterest : Tick(t)
    \/ RegisterTask

Spec == Init /\ [][Next]_vars

-----------------------------------------------------------------------------
(* Two overlapping invocations on the one settings file *)

RaceArgs == {"notify", "continuous", "configure"}
RaceIntervalInputs == {<<>>, <<"9", "0">>}
RaceTimes == {8 * 3600, 9 * 3600}

NextRace ==
    \/ \E p \in Procs, args \in RaceArgs : Launch(p, args, TRUE, FALSE)
    \/ \E p \in Procs, notifyOk \in BOOLEAN : Notify(p, notifyOk)
    \/ \E p \in Procs, notifyOk \in BOOLEAN : Iterate(p, notifyOk)
    \/ \E p \in Procs : Wake(p)
    \/ \E p \in Procs : Interrupt(p)
    \/ \E p \in Procs, iv \in RaceIntervalInputs : Reconfigure(p, iv, <<>>, <<>>, <<>>)
    \/ \E t \in RaceTimes : Tick(t)

SpecRace == Init /\ [][NextRace]_vars

-----------------------------------------------------------------------------
(* load_config and save_config on their own: slot 1 holds a dict and saves
   it, slot 2 loads whatever the file holds *)

\* values a key can hold, in memory or on disk: the default, another value
\* of the right type, and for two keys a value of a wrong type
StoreIntervals == {PyInt(60), PyInt(45), PyStr(<<"s", "o", "o", "n">>)}
StoreStarts == {PyStr(<<"0", "8", ":", "0", "0">>), PyStr(<<"0", "9", ":", "3", "0">>)}
StoreMessages == {PyStr(DefaultMessage), PyStr(<<"\"", "H", "2", "O", "\"", "\\">>)}
StoreSounds == {PyBool(TRUE), PyBool(FALSE)}
StoreLasts == {PyNone, PyStr(Isoformat(9 * 3600)), PyInt(0)}

StoreConfigs ==
    {[k \in Fields |->
        CASE k = "interval_minutes" -> iv
          [] k = "start_time" -> st
          [] k = "message" -> msg
          [] k = "sound_enabled" -> snd
          [] k = "last_reminder" -> last
          [] OTHER -> DefaultConfig[k]] :
     iv \in StoreIntervals, st \in StoreStarts, msg \in StoreMessages,
     snd \in StoreSounds, last \in StoreLasts}

\* the keys a partial settings file holds
StoreKeySets ==
    {{}, {"interval_minutes"}, {"start_time", "last_reminder"},
     {"message", "sound_enabled", "volume"}, Fields \ {"last_reminder"}, Fields}

\* a settings file: absent, not JSON, a JSON number, or an object holding
\* some of the keys (and "volume", a key the program does not know)
StoreFiles ==
    {MissingFile, GarbageFile, ScalarFile}
    \cup {[kind |-> "object",
           obj |-> [k \in keys |-> IF k = "volume" THEN <<"7">>
                                   ELSE JsonEncode(c[k])]] :
          c \in StoreConfigs, keys \in StoreKeySets}

InitStore ==
    /\ file \in StoreFiles
    /\ \E c \in StoreConfigs : config = [p \in Procs |-> IF p = 1 THEN c ELSE DefaultConfig]
    /\ pc = [p \in Procs |-> "none"]
    /\ wakeAt = [p \in Procs |-> 0]
    /\ now = 9 * 3600
    /\ artifacts = FALSE
    /\ taskRegistered = FALSE
    /\ runs = 0
    /\ sleeps = 0
    /\ obs = Obs(0, "init", "none", "none", "none")

\* save_config() by slot 1
StoreSave ==
    /\ pc[1] = "none"
    /\ file' = SaveConfig(file, config[1])
    /\ pc' = [pc EXCEPT ![1] = "saved"]
    /\ obs' = Obs(1, "save", "none", "none", "none")
    /\ UNCHANGED <<config, wakeAt, now, artifacts, taskRegistered, runs, sleeps>>

\* load_config() by slot 2; readFails: open or read raises OSError
StoreLoad(readFails) ==
    /\ LET r == LoadConfig(file, readFails)
       IN  /\ config' = [config EXCEPT ![2] = r.value]
           /\ pc' = [pc EXCEPT ![2] = IF r.raised = "none" THEN "loaded" ELSE "crashed"]
           /\ obs' = Obs(2, IF readFails THEN "load_unreadable" ELSE "load",
                         "none", "none", r.raised)
    /\ UNCHANGED <<file, wakeAt, now, artifacts, taskRegistered, runs, sleeps>>

NextStore ==
    \/ StoreSave
    \/ \E readFails \in BOOLEAN : StoreLoad(readFails)

SpecStore == InitStore /\ [][NextStore]_vars

-----------------------------------------------------------------------------
(* is_within_active_hours on its own *)

WindowTexts ==
    {<<"0", "8", ":", "0", "0">>, <<"2", "2", ":", "0", "0">>,
     <<"0", "6", ":", "0", "0">>, <<"8", ":", "0", "0">>,
     <<"2", "4", ":", "0", "0">>, <<"0", "8", ":", "6", "0">>,
     <<" ", "0", "8", ":", "0", "0">>, <<"s", "o", "o", "n">>}

WindowInstants ==
    TimesOfInterest
    \cup {0, 6 * 3600, 23 * 3600 + 59 * 60 + 59, SecondsOfDay + 3 * 3600}

InitWindow ==
    /\ file = MissingFile
    /\ \E st \in WindowTexts, en \in WindowTexts :
          config = [p \in Procs |->
                      DictSet(DictSet(DefaultConfig, "start_time", PyStr(st)),
                              "end_time", PyStr(en))]
    /\ pc = [p \in Procs |-> "none"]
    /\ wakeAt = [p \in Procs |-> 0]
    /\ now \in WindowInstants
    /\ artifacts = FALSE
    /\ taskRegistered = FALSE
    /\ runs = 0
    /\ sleeps = 0
    /\ obs = Obs(0, "init", "none", "none", "none")

\* one call of is_within_active_hours()
EvaluateWindow(p) ==
    /\ pc[p] = "none"
    /\ LET a == IsWithinActiveHours(config[p], now)
       IN  /\ pc' = [pc EXCEPT ![p] = IF a.raised = "none" THEN "exited" ELSE "crashed"]
           /\ obs' = Obs(p, "window", ActiveName(a), "none", a.raised)
    /\ UNCHANGED <<file, config, wakeAt, now, artifacts, taskRegistered, runs, sleeps>>

NextWindow == \E p \in Procs : EvaluateWindow(p)

SpecWindow == InitWindow /\ [][NextWindow]_vars

-----------------------------------------------------------------------------
(* What the claims speak of, stated apart from the methods above *)

\* text of the shape HH:MM naming a time of day
IsClockText(x) ==
    /\ x.t = "str"
    /\ Len(x.v) = 5
    /\ x.v[3] = ":"
    /\ \A i \in {1, 2, 4, 5} : IsDigit(x.v[i])
    /\ 10 * DigitVal(x.v[1]) + DigitVal(x.v[2]) <= 23
    /\ 10 * DigitVal(x.v[4]) + DigitVal(x.v[5]) <= 59

\* the time of day such a text names, in seconds
ClockOf(x) ==
    (10 * DigitVal(x.v[1]) + DigitVal(x.v[2])) * 3600
    + (10 * DigitVal(x.v[4]) + DigitVal(x.v[5])) * 60

WindowKnown(cfg) == IsClockText(cfg["start_time"]) /\ IsClockText(cfg["end_time"])

InsideWindow(cfg, t) ==
    /\ WindowKnown(cfg)
    /\ ClockOf(cfg["start_time"]) <= t % (24 * 3600)
    /\ t % (24 * 3600) <= ClockOf(cfg["end_time"])

OutsideWindow(cfg, t) == WindowKnown(cfg) /\ ~InsideWindow(cfg, t)

\* the reminder is due: no last_reminder, or interval_minutes have passed
Due(cfg, t) ==
    \/ cfg["last_reminder"] = PyNone
    \/ /\ cfg["last_reminder"].t = "str"
       /\ FromIsoformat(cfg["last_reminder"].v).ok
       /\ cfg["interval_minutes"].t = "int"
       /\ t - FromIsoformat(cfg["last_reminder"].v).val
            >= cfg["interval_minutes"].v * 60

NotDue(cfg, t) ==
    /\ cfg["last_reminder"].t = "str"
    /\ FromIsoformat(cfg["last_reminder"].v).ok
    /\ cfg["interval_minutes"].t = "int"
    /\ t - FromIsoformat(cfg["last_reminder"].v).val < cfg["interval_minutes"].v * 60

\* the settings file holds exactly the dict d
FileHolds(f, d) ==
    /\ f.kind = "object"
    /\ DOMAIN f.obj = DOMAIN d
    /\ \A k \in DOMAIN d : JsonDecode(f.obj[k]) = d[k]

\* the defaults the specification documents
DocumentedDefault(k) ==
    CASE k = "interval_minutes" -> PyInt(60)
      [] k = "start_time" -> PyStr(<<"0", "8", ":", "0", "0">>)
      [] k = "end_time" -> PyStr(<<"2", "2", ":", "0", "0">>)
      [] k = "sound_enabled" -> PyBool(TRUE)
      [] k = "last_reminder" -> PyNone
      [] k = "title" -> PyStr(DefaultTitle)
      [] k = "message" -> PyStr(DefaultMessage)

\* the step is the --notify run of slot p
NotifyStep(p) == pc[p] = "notify" /\ pc'[p] # "notify"

\* the step is one pass of the continuous loop of slot p
IterateStep(p) == pc[p] = "continuous" /\ obs'.op = "iterate" /\ obs'.p = p

\* the step calls save_config: configure always, a pass of the continuous
\* loop inside the window, a --notify run whose send returned true
SavingStep ==
    \/ obs'.op = "configure"
    \/ obs'.op = "iterate" /\ obs'.active = "true"
    \/ obs'.op = "notify" /\ obs'.send = "sent"

-----------------------------------------------------------------------------
(* The claims *)

\* C1: a --notify run outside the active window (due or not), or inside it
\* with less than interval_minutes elapsed since last_reminder, sends no
\* notification and leaves last_reminder and the settings file as they were.
C1_TriggerSendsNothing ==
    [][\A p \in Procs :
          (NotifyStep(p) /\ (OutsideWindow(config[p], now)
                             \/ (InsideWindow(config[p], now) /\ NotDue(config[p], now))))
          => /\ obs'.send = "none"
             /\ config'[p]["last_reminder"] = config[p]["last_reminder"]
             /\ file' = file]_vars

\* a --notify run has just ended inside the window with the reminder not due
C1_Witness ==
    /\ obs.op = "notify"
    /\ InsideWindow(config[obs.p], now)
    /\ NotDue(config[obs.p], now)
    /\ obs.send = "none"

\* C2: a --notify run inside the window with the reminder due sends exactly
\* one notification, and when the send succeeds last_reminder = now in
\* memory and in the settings file.
C2_TriggerFiresWhenDue ==
    [][\A p \in Procs :
          (NotifyStep(p) /\ InsideWindow(config[p], now) /\ Due(config[p], now))
          => /\ obs'.send \in {"sent", "failed"}
             /\ obs'.send = "sent"
                  => /\ config'[p]["last_reminder"] = PyStr(Isoformat(now))
                     /\ FileHolds(file', config'[p])]_vars

\* C3: in every mode a failed send leaves last_reminder as it was, in
\* memory and in the settings file, and a running invocation changes
\* last_reminder only in a step whose send returned true.
C3_FailedSendKeepsLastReminder ==
    [][\A p \in Procs :
          (pc[p] \notin Ended /\ obs'.p = p)
          => /\ obs'.send = "failed"
                  => /\ config'[p]["last_reminder"] = config[p]["last_reminder"]
                     /\ file' = file
             /\ config'[p]["last_reminder"] # config[p]["last_reminder"]
                  => obs'.send = "sent"]_vars

\* C4: with the notification facility present no invocation path ends in
\* an uncaught error.
C4_NoUncaughtError == \A p \in Procs : pc[p] # "crashed"

\* C5: a pass of the continuous loop inside the window calls
\* send_notification whatever last_reminder is, stamps and saves
\* last_reminder; outside the window it sends nothing and changes nothing;
\* in both cases it then sleeps interval_minutes minutes.
C5_ContinuousPass ==
    [][\A p \in Procs :
          (IterateStep(p) /\ WindowKnown(config[p]))
          => /\ InsideWindow(config[p], now)
                  => /\ obs'.send \in {"sent", "failed"}
                     /\ config'[p]["last_reminder"] = PyStr(Isoformat(now))
                     /\ FileHolds(file', config'[p])
             /\ OutsideWindow(config[p], now)
                  => /\ obs'.send = "none"
                     /\ config'[p] = config[p]
                     /\ file' = file
             /\ pc'[p] = "sleeping"
             /\ wakeAt'[p] = now + config[p]["interval_minutes"].v * 60]_vars

\* C6: interval_minutes is a positive integer in every reachable state, in
\* memory and in the settings file.
C6_IntervalPositive ==
    /\ \A p \in Procs :
          config[p]["interval_minutes"].t = "int" /\ config[p]["interval_minutes"].v > 0
    /\ file.kind = "object"
          => /\ JsonDecode(file.obj["interval_minutes"]).t = "int"
             /\ JsonDecode(file.obj["interval_minutes"]).v > 0

\* C7: load_config after save_config of a dict c on the same file, the read
\* succeeding, yields c in every field.
C7_SaveLoadRoundTrip ==
    (pc[1] = "saved" /\ obs.op = "load") => config[2] = config[1]

\* a dict that differs from the defaults in every field the store varies
\* has been saved and loaded
C7_Witness ==
    /\ pc[1] = "saved"
    /\ obs.op = "load"
    /\ config[1]["message"] # DefaultConfig["message"]
    /\ config[1]["last_reminder"] # PyNone
    /\ config[1]["sound_enabled"] = PyBool(FALSE)
    /\ config[1]["interval_minutes"] = PyInt(45)

\* C8: load_config never raises, and every documented field of its result
\* holds the value on disk or the documented default: for a missing file,
\* an unreadable one, one that is no JSON or no JSON object, the defaults.
C8_LoadFallsBackToDefaults ==
    obs.op \in {"load", "load_unreadable"}
    => /\ obs.exc = "none"
       /\ pc[2] = "loaded"
       /\ Fields \subseteq DOMAIN config[2]
       /\ \A k \in Fields :
             IF obs.op = "load" /\ file.kind = "object" /\ k \in DOMAIN file.obj
             THEN JsonEncode(config[2][k]) = file.obj[k]
             ELSE config[2][k] = DocumentedDefault(k)

\* a file that is no JSON has been loaded
C8_Witness == obs.op = "load" /\ file.kind = "garbage" /\ pc[2] = "loaded"

\* C9: is_within_active_hours is true exactly when start_time <= now <=
\* end_time as times of day, both ends included; a window whose start_time
\* is later than its end_time is false at every time of day.
C9_WindowIsClosedInterval ==
    (obs.op = "window" /\ WindowKnown(config[obs.p]))
    => /\ obs.exc = "none"
       /\ obs.active = (IF InsideWindow(config[obs.p], now) THEN "true" ELSE "false")
       /\ ClockOf(config[obs.p]["start_time"]) > ClockOf(config[obs.p]["end_time"])
             => obs.active = "false"

\* the check has been made at the very end of the window
C9_Witness ==
    /\ obs.op = "window"
    /\ WindowKnown(config[obs.p])
    /\ now % (24 * 3600) = ClockOf(config[obs.p]["end_time"])
    /\ ClockOf(config[obs.p]["start_time"]) < ClockOf(config[obs.p]["end_time"])
    /\ obs.active = "true"

\* C10: no protection between writers: whenever an invocation writes the
\* settings file, the file holds that invocation's whole dict afterwards,
\* whatever another invocation wrote since this one loaded, so the other's
\* change is lost.
C10_LastWriterWins ==
    [][\A p \in Procs :
          (obs'.p = p /\ SavingStep)
          => FileHolds(file', config'[p])]_vars

\* slot p stamped and saved last_reminder, then slot q, which had loaded
\* before, saved its configuration: the file holds no last_reminder
C10_Witness ==
    \E p \in Procs, q \in Procs :
       /\ p # q
       /\ obs.p = q
       /\ obs.op = "configure"
       /\ pc[p] = "sleeping"
       /\ config[p]["last_reminder"] # PyNone
       /\ config[q]["last_reminder"] = PyNone
       /\ config[q]["interval_minutes"] = PyInt(90)
       /\ FileHolds(file, config[q])

====
